---- MODULE Spec2Model ----
(***************************************************************************)
(* Model of image_processing.py: the region extractor                      *)
(* (extract_largest_region), the slice processor (process_slice), the      *)
(* volume slicer (get_slices_2D), the 3D passthrough (get_volume_3D), the  *)
(* file reader (read_image_and_mask) and the registry builder              *)
(* (get_patient_image_mask_dict).                                          *)
(*                                                                         *)
(* Python values are records tagged with their type: [t |-> "int", v |-> 3]*)
(* A numpy 2D array is a sequence of rows, a 3D array a sequence of 2D     *)
(* arrays (leading axis first).  A finished call is a record               *)
(* [kind |-> "return", value |-> ...] or [kind |-> "raise", exc, msg].     *)
(***************************************************************************)
EXTENDS Integers, Sequences, FiniteSets, TLC

VARIABLES
    fn,              \* the function that was called
    pc,              \* position in that function: "start", "loop", "done"
    mask_slice,      \* extract_largest_region / process_slice argument
    label_value,     \* extract_largest_region argument
    labeled_region,  \* extract_largest_region local (line 29)
    num_labels,      \* extract_largest_region local (line 29)
    region_id,       \* extract_largest_region loop variable (line 35)
    largest_region,  \* extract_largest_region local (line 31)
    largest_area,    \* extract_largest_region local (line 32)
    image,           \* get_slices_2D / get_volume_3D argument
    mask,            \* get_slices_2D / get_volume_3D argument
    patient_id,      \* get_slices_2D / get_volume_3D argument
    slice_idx,       \* get_slices_2D loop variable (line 84), 0-based
    patient_slices,  \* get_slices_2D local (line 82)
    image_path,      \* read_image_and_mask argument
    mask_path,       \* read_image_and_mask argument
    imgs_path,       \* get_patient_image_mask_dict argument
    masks_path,      \* get_patient_image_mask_dict argument
    patient_ids,     \* get_patient_image_mask_dict argument
    mode,            \* get_patient_image_mask_dict argument
    patient_dict,    \* get_patient_image_mask_dict local (line 162)
    pr_idx,          \* position of the loop of line 164 in the zip, 0-based
    read_calls,      \* the calls of read_image_and_mask made at line 165, in order
    result           \* outcome of the call once pc = "done"

vars == <<fn, pc, mask_slice, label_value, labeled_region, num_labels, region_id,
          largest_region, largest_area, image, mask, patient_id, slice_idx,
          patient_slices, image_path, mask_path, imgs_path, masks_path,
          patient_ids, mode, patient_dict, pr_idx, read_calls, result>>

regionVars == <<labeled_region, num_labels, region_id, largest_region, largest_area>>
sliceArgs == <<mask_slice, label_value>>
volumeArgs == <<image, mask, patient_id>>
volumeVars == <<slice_idx, patient_slices>>
readArgs == <<image_path, mask_path>>
registryArgs == <<imgs_path, masks_path, patient_ids, mode>>
registryVars == <<patient_dict, pr_idx, read_calls>>
registryAll == <<readArgs, registryArgs, registryVars>>

(***************************************************************************)
(* Bounds of the explored inputs.                                          *)
(***************************************************************************)
Rows == 2
Cols == 3
MaxLabel == 2
NegCells == 1
NumSlices == 3
VolRows == 1
VolCols == 3

(***************************************************************************)
(* Python values.                                                          *)
(***************************************************************************)
None == [t |-> "NoneType"]
PyInt(n) == [t |-> "int", v |-> n]
PyFloat(n) == [t |-> "float", v |-> n]
PyStr(s) == [t |-> "str", v |-> s]
NdArray(a) == [t |-> "ndarray", v |-> a]
SitkImage(a) == [t |-> "Image", v |-> a]
PyList(seq) == [t |-> "list", v |-> seq]

isinstance(x, type) == x.t = type

Return(value) == [kind |-> "return", value |-> value]
Raise(exc, msg) == [kind |-> "raise", exc |-> exc, msg |-> msg]

SwappedMsg ==
    <<"Inputs appear to be swapped. Expected mask_slice as a numpy array and label_value as an integer.">>
LabelTypeMsg == <<"Label value must be an integer">>
LabelNegativeMsg == <<"Label value cannot be negative">>

(***************************************************************************)
(* numpy on 2D arrays.                                                     *)
(***************************************************************************)
NumRows(a) == Len(a)
NumCols(a) == IF Len(a) = 0 THEN 0 ELSE Len(a[1])
Cells(a) == (1..NumRows(a)) \X (1..NumCols(a))

\* mutant of ArrayEq: the comparison inverted (a != x)
ArrayNe(a, x) == [r \in 1..NumRows(a) |-> [c \in 1..NumCols(a) |-> a[r][c] # x]]

\* a == x, elementwise
ArrayEq(a, x) == [r \in 1..NumRows(a) |-> [c \in 1..NumCols(a) |-> a[r][c] = x]]

\* (labeled == k).astype(dtype) * x: True becomes 1, False 0, times x
MaskTimes(labeled, k, x) ==
    [r \in 1..NumRows(labeled) |->
        [c \in 1..NumCols(labeled) |-> (IF labeled[r][c] = k THEN 1 ELSE 0) * x]]

\* np.sum(a > 0)
CountPositive(a) == Cardinality({p \in Cells(a) : a[p[1]][p[2]] > 0})

(***************************************************************************)
(* scipy.ndimage.label with the default structuring element: the           *)
(* components of the True cells under edge adjacency (4-connectivity in    *)
(* 2D), numbered 1..K in the order a row-major scan meets their first cell.*)
(***************************************************************************)
Adjacent(p, q) ==
    \/ p[1] = q[1] /\ (p[2] - q[2]) \in {-1, 1}
    \/ p[2] = q[2] /\ (p[1] - q[1]) \in {-1, 1}

RECURSIVE Fill(_, _)
Fill(S, T) ==
    LET N == {q \in T \ S : \E p \in S : Adjacent(p, q)}
    IN  IF N = {} THEN S ELSE Fill(S \cup N, T)

ScanIndex(p, a) == (p[1] - 1) * NumCols(a) + p[2]
FirstInScan(T, a) == CHOOSE p \in T : \A q \in T : ScanIndex(p, a) <= ScanIndex(q, a)

RECURSIVE LabelComponents(_, _, _, _)
LabelComponents(a, T, k, lab) ==
    IF T = {} THEN [labeled |-> lab, num |-> k]
    ELSE LET comp == Fill({FirstInScan(T, a)}, T)
         IN  LabelComponents(a, T \ comp, k + 1,
                 [r \in 1..NumRows(a) |->
                     [c \in 1..NumCols(a) |->
                         IF <<r, c>> \in comp THEN k + 1 ELSE lab[r][c]]])

label(region_mask) ==
    LabelComponents(region_mask,
                    {p \in Cells(region_mask) : region_mask[p[1]][p[2]]},
                    0,
                    [r \in 1..NumRows(region_mask) |-> [c \in 1..NumCols(region_mask) |-> 0]])

(***************************************************************************)
(* extract_largest_region                                                  *)
(***************************************************************************)
\* mutant of ELR_Checks: a label of the wrong type reported as a ValueError
ELR_Checks_TypeAsValueError(m, lv) ==
    IF isinstance(m, "int") /\ isinstance(lv, "ndarray")
    THEN Raise("TypeError", SwappedMsg)
    ELSE IF ~isinstance(lv, "int")
    THEN Raise("ValueError", LabelTypeMsg)
    ELSE IF lv.v < 0
    THEN Raise("ValueError", LabelNegativeMsg)
    ELSE None

\* mutant of ELR_Checks: a negative label rejected by the type check
ELR_Checks_NegativeAsTypeError(m, lv) ==
    IF isinstance(m, "int") /\ isinstance(lv, "ndarray")
    THEN Raise("TypeError", SwappedMsg)
    ELSE IF ~isinstance(lv, "int") \/ lv.v < 0
    THEN Raise("TypeError", LabelTypeMsg)
    ELSE None

\* mutant of ELR_Checks: the type of the label checked before the swap
ELR_Checks_TypeFirst(m, lv) ==
    IF ~isinstance(lv, "int")
    THEN Raise("TypeError", LabelTypeMsg)
    ELSE IF isinstance(m, "int") /\ isinstance(lv, "ndarray")
    THEN Raise("TypeError", SwappedMsg)
    ELSE IF lv.v < 0
    THEN Raise("ValueError", LabelNegativeMsg)
    ELSE None

\* lines 16-23: the checks, in the order of the code
ELR_Checks(m, lv) ==
    IF isinstance(m, "int") /\ isinstance(lv, "ndarray")
    THEN Raise("TypeError", SwappedMsg)
    ELSE IF ~isinstance(lv, "int")
    THEN Raise("TypeError", LabelTypeMsg)
    ELSE IF lv.v < 0
    THEN Raise("ValueError", LabelNegativeMsg)
    ELSE None

\* mutant of ELR_LoopBody: the area is the number of cells of the component
ELR_LoopBody_ComponentArea(acc, labeled, rid, lv) ==
    LET region == MaskTimes(labeled, rid, lv.v)
        region_area == CountPositive(MaskTimes(labeled, rid, 1))
    IN  IF region_area > acc.largest_area
        THEN [largest_area |-> region_area, largest_region |-> NdArray(region)]
        ELSE acc

\* mutant of ELR_LoopBody: a component of equal area replaces the retained one
ELR_LoopBody_GreaterEqual(acc, labeled, rid, lv) ==
    LET region == MaskTimes(labeled, rid, lv.v)
        region_area == CountPositive(region)
    IN  IF region_area >= acc.largest_area /\ region_area > 0
        THEN [largest_area |-> region_area, largest_region |-> NdArray(region)]
        ELSE acc

\* mutant of ELR_LoopBody: every component replaces the retained one
ELR_LoopBody_KeepLast(acc, labeled, rid, lv) ==
    LET region == MaskTimes(labeled, rid, lv.v)
        region_area == CountPositive(region)
    IN  IF region_area > 0
        THEN [largest_area |-> region_area, largest_region |-> NdArray(region)]
        ELSE acc

\* lines 36-42: one iteration of the loop over the component ids
ELR_LoopBody(acc, labeled, rid, lv) ==
    LET region == MaskTimes(labeled, rid, lv.v)
        region_area == CountPositive(region)
    IN  IF region_area > acc.largest_area
        THEN [largest_area |-> region_area, largest_region |-> NdArray(region)]
        ELSE acc

RECURSIVE ELR_Loop(_, _, _, _, _)
ELR_Loop(acc, labeled, rid, num, lv) ==
    IF rid > num THEN acc
    ELSE ELR_Loop(ELR_LoopBody(acc, labeled, rid, lv), labeled, rid + 1, num, lv)

\* the whole function, as its callers see it
extract_largest_region(m, lv) ==
    LET chk == ELR_Checks(m, lv)
    IN  IF chk # None THEN chk
        ELSE LET lab == label(ArrayEq(m.v, lv.v))
             IN  Return(ELR_Loop([largest_area |-> 0, largest_region |-> None],
                                 lab.labeled, 1, lab.num, lv).largest_region)

(***************************************************************************)
(* process_slice                                                           *)
(***************************************************************************)
\* np.unique: the distinct values, ascending
RECURSIVE SortedSeq(_)
SortedSeq(S) ==
    IF S = {} THEN <<>>
    ELSE LET x == CHOOSE y \in S : \A z \in S : y <= z
         IN  <<x>> \o SortedSeq(S \ {x})

unique(a) == SortedSeq({a[p[1]][p[2]] : p \in Cells(a)})

\* mutant of PS_Loop: a label that extract_largest_region rejects is skipped
RECURSIVE PS_Loop_SkipRejected(_, _, _)
PS_Loop_SkipRejected(m, labels, i) ==
    IF i > Len(labels) THEN Return(<<None, None>>)
    ELSE LET lbl == PyInt(labels[i])
             largest_region_mask == extract_largest_region(m, lbl)
         IN  IF largest_region_mask.kind = "raise" THEN PS_Loop_SkipRejected(m, labels, i + 1)
             ELSE IF largest_region_mask.value # None
             THEN Return(<<largest_region_mask.value, lbl>>)
             ELSE PS_Loop_SkipRejected(m, labels, i + 1)

\* mutant of PS_Loop: the labels tried in descending order
RECURSIVE PS_Loop_Descending(_, _, _)
PS_Loop_Descending(m, labels, i) ==
    IF i > Len(labels) THEN Return(<<None, None>>)
    ELSE LET lbl == PyInt(labels[Len(labels) + 1 - i])
             largest_region_mask == extract_largest_region(m, lbl)
         IN  IF largest_region_mask.kind = "raise" THEN largest_region_mask
             ELSE IF largest_region_mask.value # None
             THEN Return(<<largest_region_mask.value, lbl>>)
             ELSE PS_Loop_Descending(m, labels, i + 1)

\* mutant of PS_Loop: a slice without a region is an error
RECURSIVE PS_Loop_RaiseWhenEmpty(_, _, _)
PS_Loop_RaiseWhenEmpty(m, labels, i) ==
    IF i > Len(labels) THEN Raise("ValueError", <<"The mask has no labeled regions">>)
    ELSE LET lbl == PyInt(labels[i])
             largest_region_mask == extract_largest_region(m, lbl)
         IN  IF largest_region_mask.kind = "raise" THEN largest_region_mask
             ELSE IF largest_region_mask.value # None
             THEN Return(<<largest_region_mask.value, lbl>>)
             ELSE PS_Loop_RaiseWhenEmpty(m, labels, i + 1)

\* lines 59-65: the loop over the labels, from the i-th on
RECURSIVE PS_Loop(_, _, _)
PS_Loop(m, labels, i) ==
    IF i > Len(labels) THEN Return(<<None, None>>)
    ELSE LET lbl == PyInt(labels[i])
             largest_region_mask == extract_largest_region(m, lbl)
         IN  IF largest_region_mask.kind = "raise" THEN largest_region_mask
             ELSE IF largest_region_mask.value # None
             THEN Return(<<largest_region_mask.value, lbl>>)
             ELSE PS_Loop(m, labels, i + 1)

process_slice(m) ==
    LET labels == SelectSeq(unique(m.v), LAMBDA x : x # 0)
    IN  PS_Loop(m, labels, 1)

(***************************************************************************)
(* Text: a string is its sequence of characters where the code builds it   *)
(* (f-strings), and str() of an int is its decimal notation.               *)
(***************************************************************************)
DigitChar(d) == <<"0", "1", "2", "3", "4", "5", "6", "7", "8", "9">>[d + 1]

RECURSIVE Digits(_)
Digits(n) == IF n < 10 THEN <<DigitChar(n)>> ELSE Digits(n \div 10) \o <<DigitChar(n % 10)>>

\* str(x) for an int x
str(x) == IF x.v < 0 THEN <<"-">> \o Digits(0 - x.v) ELSE Digits(x.v)

\* str(type(x))
type(x) ==
    CASE x.t = "int" -> "<class 'int'>"
      [] x.t = "float" -> "<class 'float'>"
      [] x.t = "str" -> "<class 'str'>"
      [] x.t = "NoneType" -> "<class 'NoneType'>"
      [] x.t = "ndarray" -> "<class 'numpy.ndarray'>"
      [] x.t = "Image" -> "<class 'SimpleITK.SimpleITK.Image'>"

\* sitk.GetArrayFromImage / sitk.GetImageFromArray: the pixels, leading axis first
GetArrayFromImage(img) == NdArray(img.v)
GetImageFromArray(arr) == SitkImage(arr.v)

(***************************************************************************)
(* get_slices_2D                                                           *)
(***************************************************************************)
\* lines 70-78
GS_Checks(img, msk, pid) ==
    IF ~isinstance(img, "Image")
    THEN Raise("TypeError", <<"Expected 'image' to be a SimpleITK Image, but got ", type(img), ".">>)
    ELSE IF ~isinstance(msk, "Image")
    THEN Raise("TypeError", <<"Expected 'mask' to be a SimpleITK Image, but got ", type(msk), ".">>)
    ELSE IF ~isinstance(pid, "int")
    THEN Raise("ValueError", <<"Expected 'patient_id' to be a int, but got ", type(pid), ".">>)
    ELSE None

\* mutant of GS_LoopBody: the raw mask slice stored as MaskSlice
GS_LoopBody_RawMask(slices, img, msk, pid, idx) ==
    LET image_array == GetArrayFromImage(img)
        mask_array == GetArrayFromImage(msk)
        m == NdArray(mask_array.v[idx + 1])
        image_slice == NdArray(image_array.v[idx + 1])
        r == process_slice(m)
    IN  IF r.kind = "raise" THEN r
        ELSE LET region_mask == r.value[1]
                 region_label == r.value[2]
             IN  IF region_mask = None THEN Return(slices)
                 ELSE Return(PyList(Append(slices.v,
                        [PatientID |-> <<"P", "R">> \o str(pid),
                         Label |-> region_label,
                         SliceIndex |-> idx,
                         ImageSlice |-> GetImageFromArray(image_slice),
                         MaskSlice |-> GetImageFromArray(m)])))

\* mutant of GS_LoopBody: SliceIndex is the position in the output list
GS_LoopBody_PositionIndex(slices, img, msk, pid, idx) ==
    LET image_array == GetArrayFromImage(img)
        mask_array == GetArrayFromImage(msk)
        m == NdArray(mask_array.v[idx + 1])
        image_slice == NdArray(image_array.v[idx + 1])
        r == process_slice(m)
    IN  IF r.kind = "raise" THEN r
        ELSE LET region_mask == r.value[1]
                 region_label == r.value[2]
             IN  IF region_mask = None THEN Return(slices)
                 ELSE Return(PyList(Append(slices.v,
                        [PatientID |-> <<"P", "R">> \o str(pid),
                         Label |-> region_label,
                         SliceIndex |-> Len(slices.v),
                         ImageSlice |-> GetImageFromArray(image_slice),
                         MaskSlice |-> GetImageFromArray(region_mask)])))

\* lines 85-99: one iteration, for the 0-based index idx; the list of records so
\* far is the list slices.  Gives the error process_slice raised, or the new list.
GS_LoopBody(slices, img, msk, pid, idx) ==
    LET image_array == GetArrayFromImage(img)
        mask_array == GetArrayFromImage(msk)
        m == NdArray(mask_array.v[idx + 1])
        image_slice == NdArray(image_array.v[idx + 1])
        r == process_slice(m)
    IN  IF r.kind = "raise" THEN r
        ELSE LET region_mask == r.value[1]
                 region_label == r.value[2]
             IN  IF region_mask = None THEN Return(slices)
                 ELSE Return(PyList(Append(slices.v,
                        [PatientID |-> <<"P", "R">> \o str(pid),
                         Label |-> region_label,
                         SliceIndex |-> idx,
                         ImageSlice |-> GetImageFromArray(image_slice),
                         MaskSlice |-> GetImageFromArray(region_mask)])))

\* lines 84-101: the loop from index idx on, and the return
RECURSIVE GS_Loop(_, _, _, _, _)
GS_Loop(slices, img, msk, pid, idx) ==
    IF idx >= Len(GetArrayFromImage(msk).v) THEN Return(slices)
    ELSE LET r == GS_LoopBody(slices, img, msk, pid, idx)
         IN  IF r.kind = "raise" THEN r
             ELSE GS_Loop(r.value, img, msk, pid, idx + 1)

\* the whole function, as its callers see it
get_slices_2D(img, msk, pid) ==
    LET chk == GS_Checks(img, msk, pid)
    IN  IF chk # None THEN chk ELSE GS_Loop(PyList(<<>>), img, msk, pid, 0)

(***************************************************************************)
(* get_volume_3D                                                           *)
(***************************************************************************)
\* mutant of GV_Checks: a patient_id that is not an int reported as a TypeError
GV_Checks_PatientIdAsTypeError(img, msk, pid) ==
    IF ~isinstance(img, "Image")
    THEN Raise("TypeError", <<"Expected 'image' to be a SimpleITK Image, but got ", type(img), ".">>)
    ELSE IF ~isinstance(msk, "Image")
    THEN Raise("TypeError", <<"Expected 'mask' to be a SimpleITK Image, but got ", type(msk), ".">>)
    ELSE IF ~isinstance(pid, "int")
    THEN Raise("TypeError", <<"Expected 'patient_id' to be a int, but got ", type(pid), ".">>)
    ELSE None

\* mutant of GV_Checks: the mask checked before the image
GV_Checks_MaskFirst(img, msk, pid) ==
    IF ~isinstance(msk, "Image")
    THEN Raise("TypeError", <<"Expected 'mask' to be a SimpleITK Image, but got ", type(msk), ".">>)
    ELSE IF ~isinstance(img, "Image")
    THEN Raise("TypeError", <<"Expected 'image' to be a SimpleITK Image, but got ", type(img), ".">>)
    ELSE IF ~isinstance(pid, "int")
    THEN Raise("ValueError", <<"Expected 'patient_id' to be a int, but got ", type(pid), ".">>)
    ELSE None

\* lines 106-113
GV_Checks(img, msk, pid) ==
    IF ~isinstance(img, "Image")
    THEN Raise("TypeError", <<"Expected 'image' to be a SimpleITK Image, but got ", type(img), ".">>)
    ELSE IF ~isinstance(msk, "Image")
    THEN Raise("TypeError", <<"Expected 'mask' to be a SimpleITK Image, but got ", type(msk), ".">>)
    ELSE IF ~isinstance(pid, "int")
    THEN Raise("ValueError", <<"Expected 'patient_id' to be a int, but got ", type(pid), ".">>)
    ELSE None

\* mutant of GV_Record: the image and the mask stored under each other's key
GV_Record_Swapped(img, msk, pid) ==
    [PatientID |-> <<"P", "R">> \o str(pid), ImageVolume |-> msk, MaskVolume |-> img]

\* lines 115-119
GV_Record(img, msk, pid) ==
    [PatientID |-> <<"P", "R">> \o str(pid), ImageVolume |-> img, MaskVolume |-> msk]

get_volume_3D(img, msk, pid) ==
    LET chk == GV_Checks(img, msk, pid)
    IN  IF chk # None THEN chk ELSE Return(PyList(<<GV_Record(img, msk, pid)>>))

(***************************************************************************)
(* The inputs.                                                             *)
(***************************************************************************)
CellValues == (0 - NegCells)..MaxLabel
Grids == [1..Rows -> [1..Cols -> CellValues]]
MaskSlices == {NdArray(g) : g \in Grids}

IntLabels == {PyInt(n) : n \in CellValues}
OtherLabels == {PyFloat("1.5"), PyStr("label"), NdArray(<<<<0, 1>>, <<1, 0>>>>)}

(***************************************************************************)
(* Calls of extract_largest_region and process_slice.                      *)
(***************************************************************************)
NoVolume ==
    /\ image = None /\ mask = None /\ patient_id = None
    /\ slice_idx = None /\ patient_slices = None

NoRegionLocals ==
    /\ labeled_region = None /\ num_labels = None /\ region_id = None
    /\ largest_region = None /\ largest_area = None

NoRead == image_path = None /\ mask_path = None

NoRegistry ==
    /\ imgs_path = None /\ masks_path = None /\ patient_ids = None /\ mode = None
    /\ patient_dict = None /\ pr_idx = None /\ read_calls = <<>>

\* extract_largest_region(mask_slice, label_value) on an array, and on an integer
\* scalar with the label values the checks of lines 16-23 reject
InitRegion ==
    /\ fn = "extract_largest_region" /\ pc = "start" /\ result = None
    /\ \/ /\ mask_slice \in MaskSlices
          /\ \/ label_value \in IntLabels
             \/ label_value \in OtherLabels
       \/ /\ mask_slice \in {PyInt(1)}
          /\ \/ label_value \in {lv \in IntLabels : lv.v < 0}
             \/ label_value \in OtherLabels
    /\ NoRegionLocals /\ NoVolume /\ NoRead /\ NoRegistry

InitProcessSlice ==
    /\ fn = "process_slice" /\ pc = "start" /\ result = None
    /\ mask_slice \in MaskSlices /\ label_value = None
    /\ NoRegionLocals /\ NoVolume /\ NoRead /\ NoRegistry

Init == InitRegion \/ InitProcessSlice

\* lines 16-32
ELR_Enter ==
    /\ fn = "extract_largest_region" /\ pc = "start"
    /\ LET chk == ELR_Checks(mask_slice, label_value)
       IN  IF chk # None
           THEN /\ pc' = "done" /\ result' = chk
                /\ UNCHANGED regionVars
           ELSE LET lab == label(ArrayEq(mask_slice.v, label_value.v))
                IN  /\ labeled_region' = lab.labeled
                    /\ num_labels' = lab.num
                    /\ largest_region' = None
                    /\ largest_area' = 0
                    /\ region_id' = 1
                    /\ pc' = "loop"
                    /\ UNCHANGED result
    /\ UNCHANGED <<fn, registryAll, sliceArgs, volumeArgs, volumeVars>>

\* lines 35-42, one iteration
ELR_Iter ==
    /\ fn = "extract_largest_region" /\ pc = "loop"
    /\ region_id <= num_labels
    /\ LET acc == ELR_LoopBody([largest_area |-> largest_area, largest_region |-> largest_region],
                               labeled_region, region_id, label_value)
       IN  /\ largest_area' = acc.largest_area
           /\ largest_region' = acc.largest_region
    /\ region_id' = region_id + 1
    /\ UNCHANGED <<fn, registryAll, pc, sliceArgs, labeled_region, num_labels, volumeArgs, volumeVars, result>>

\* line 44
ELR_Return ==
    /\ fn = "extract_largest_region" /\ pc = "loop"
    /\ region_id > num_labels
    /\ pc' = "done"
    /\ result' = Return(largest_region)
    /\ UNCHANGED <<fn, registryAll, sliceArgs, regionVars, volumeArgs, volumeVars>>

\* lines 56-65
PS_Call ==
    /\ fn = "process_slice" /\ pc = "start"
    /\ pc' = "done"
    /\ result' = process_slice(mask_slice)
    /\ UNCHANGED <<fn, registryAll, sliceArgs, regionVars, volumeArgs, volumeVars>>

Next == ELR_Enter \/ ELR_Iter \/ ELR_Return \/ PS_Call

Spec == Init /\ [][Next]_vars

(***************************************************************************)
(* Calls of get_slices_2D and get_volume_3D.                               *)
(***************************************************************************)
VolumeSlices == [1..VolRows -> [1..VolCols -> CellValues]]
MaskVolumes == {SitkImage(a) : a \in [1..NumSlices -> VolumeSlices]}

\* the intensity image of the shape of the masks: every pixel differs
TheImage ==
    SitkImage([i \in 1..NumSlices |->
                  [r \in 1..VolRows |-> [c \in 1..VolCols |-> 100 * i + 10 * r + c]]])

EmptySlice == [r \in 1..VolRows |-> [c \in 1..VolCols |-> 0]]
FullSlice == [r \in 1..VolRows |-> [c \in 1..VolCols |-> 1]]

ImageArgs == {TheImage, PyStr("invalid_image"), NdArray(<<<<1, 2>>, <<3, 4>>>>), None}
MaskArgs ==
    {SitkImage([i \in 1..NumSlices |-> IF i = 1 THEN FullSlice ELSE EmptySlice]),
     SitkImage([i \in 1..NumSlices |-> EmptySlice]),
     PyStr("invalid_mask"), NdArray(<<<<0, 1>>, <<1, 0>>>>), None}
PatientIdArgs == {PyInt(-3), PyInt(0), PyInt(7), PyInt(1234), PyStr("12345"), PyFloat("7.0"), None}

NoSlice == mask_slice = None /\ label_value = None

InitVolume ==
    /\ fn \in {"get_slices_2D", "get_volume_3D"} /\ pc = "start" /\ result = None
    /\ \/ image = TheImage /\ mask \in MaskVolumes /\ patient_id = PyInt(12)
       \/ image \in ImageArgs /\ mask \in MaskArgs /\ patient_id \in PatientIdArgs
    /\ slice_idx = None /\ patient_slices = None
    /\ NoSlice /\ NoRegionLocals /\ NoRead /\ NoRegistry

\* lines 70-82
GS_Enter ==
    /\ fn = "get_slices_2D" /\ pc = "start"
    /\ LET chk == GS_Checks(image, mask, patient_id)
       IN  IF chk # None
           THEN /\ pc' = "done" /\ result' = chk
                /\ UNCHANGED volumeVars
           ELSE /\ patient_slices' = PyList(<<>>)
                /\ slice_idx' = 0
                /\ pc' = "loop"
                /\ UNCHANGED result
    /\ UNCHANGED <<fn, registryAll, sliceArgs, regionVars, volumeArgs>>

\* lines 84-99, one iteration
GS_Iter ==
    /\ fn = "get_slices_2D" /\ pc = "loop"
    /\ slice_idx < Len(GetArrayFromImage(mask).v)
    /\ LET r == GS_LoopBody(patient_slices, image, mask, patient_id, slice_idx)
       IN  IF r.kind = "raise"
           THEN /\ pc' = "done" /\ result' = r
                /\ UNCHANGED volumeVars
           ELSE /\ patient_slices' = r.value
                /\ slice_idx' = slice_idx + 1
                /\ UNCHANGED <<pc, result>>
    /\ UNCHANGED <<fn, registryAll, sliceArgs, regionVars, volumeArgs>>

\* line 101
GS_Return ==
    /\ fn = "get_slices_2D" /\ pc = "loop"
    /\ slice_idx >= Len(GetArrayFromImage(mask).v)
    /\ pc' = "done"
    /\ result' = Return(patient_slices)
    /\ UNCHANGED <<fn, registryAll, sliceArgs, regionVars, volumeArgs, volumeVars>>

\* lines 106-119
GV_Call ==
    /\ fn = "get_volume_3D" /\ pc = "start"
    /\ pc' = "done"
    /\ result' = get_volume_3D(image, mask, patient_id)
    /\ UNCHANGED <<fn, registryAll, sliceArgs, regionVars, volumeArgs, volumeVars>>

NextVolume == GS_Enter \/ GS_Iter \/ GS_Return \/ GV_Call

SpecVolume == InitVolume /\ [][NextVolume]_vars

(***************************************************************************)
(* Python truth value, len and zip; a dict is the sequence of its          *)
(* <<key, value>> pairs in insertion order.                                *)
(***************************************************************************)
PyDict(pairs) == [t |-> "dict", v |-> pairs]

\* not x
Falsy(x) ==
    CASE x.t = "NoneType" -> TRUE
      [] x.t = "int" -> x.v = 0
      [] x.t = "str" -> x.v = <<>>
      [] x.t = "list" -> x.v = <<>>
      [] OTHER -> FALSE

len(x) == Len(x.v)

Min(a, b) == IF a <= b THEN a ELSE b

\* mutant of zip: every element of the first list paired with the first elements
\* of the other two
zip_FirstPaths(a, b, c) ==
    [i \in 1..Min(len(a), Min(len(b), len(c))) |-> <<a.v[i], b.v[1], c.v[1]>>]

\* zip(a, b, c): the triples up to the shortest of the three lists
zip(a, b, c) == [i \in 1..Min(len(a), Min(len(b), len(c))) |-> <<a.v[i], b.v[i], c.v[i]>>]

KeyEq(j, k) == j.t = k.t /\ j.v = k.v

\* mutant of DictSet: an existing key keeps its value
DictSet_KeepFirst(d, k, val) ==
    IF \E i \in 1..Len(d.v) : KeyEq(d.v[i][1], k)
    THEN d
    ELSE PyDict(Append(d.v, <<k, val>>))

\* d[k] = val: an existing key keeps its place, a new key goes last
DictSet(d, k, val) ==
    IF \E i \in 1..Len(d.v) : KeyEq(d.v[i][1], k)
    THEN PyDict([i \in 1..Len(d.v) |->
                    IF KeyEq(d.v[i][1], k) THEN <<d.v[i][1], val>> ELSE d.v[i]])
    ELSE PyDict(Append(d.v, <<k, val>>))

(***************************************************************************)
(* os.path.dirname on POSIX paths, a path being its sequence of characters.*)
(***************************************************************************)
\* p.rfind('/') + 1, looking at the first n characters
RECURSIVE rfind(_, _)
rfind(p, n) == IF n = 0 THEN 0 ELSE IF p[n] = "/" THEN n ELSE rfind(p, n - 1)

\* head.rstrip('/')
RECURSIVE rstrip(_)
rstrip(head) ==
    IF head # <<>> /\ head[Len(head)] = "/" THEN rstrip(SubSeq(head, 1, Len(head) - 1)) ELSE head

dirname(p) ==
    LET head == SubSeq(p, 1, rfind(p, Len(p)))
    IN  IF head # <<>> /\ (\E i \in 1..Len(head) : head[i] # "/") THEN rstrip(head) ELSE head

(***************************************************************************)
(* The files on disk that sitk.ReadImage can load.                         *)
(***************************************************************************)
MaxPatients == 3

SecondImage ==
    SitkImage([i \in 1..NumSlices |->
                  [r \in 1..VolRows |-> [c \in 1..VolCols |-> 1000 + 100 * i + 10 * r + c]]])

\* label 1 in the first column and label 2 in the last one of the first slice
TwoLabelSlice ==
    [r \in 1..VolRows |-> [c \in 1..VolCols |-> IF c = 1 THEN 1 ELSE IF c = VolCols THEN 2 ELSE 0]]
NegativeSlice ==
    [r \in 1..VolRows |-> [c \in 1..VolCols |-> IF c = 1 THEN 0 - 1 ELSE 0]]

FirstMask == SitkImage([i \in 1..NumSlices |-> IF i = 1 THEN TwoLabelSlice ELSE EmptySlice])
SecondMask == SitkImage([i \in 1..NumSlices |-> FullSlice])
NegativeMask == SitkImage([i \in 1..NumSlices |-> IF i = 1 THEN NegativeSlice ELSE EmptySlice])
LongerMask == SitkImage([i \in 1..(NumSlices + 1) |-> EmptySlice])
EmptyMask == SitkImage([i \in 1..NumSlices |-> EmptySlice])

Disk ==
    {[path |-> <<"a", "/", "i", "1">>, content |-> TheImage],
     [path |-> <<"a", "/", "i", "2">>, content |-> SecondImage],
     [path |-> <<"a", "/", "m", "1">>, content |-> FirstMask],
     [path |-> <<"a", "/", "m", "2">>, content |-> SecondMask],
     [path |-> <<"a", "/", "m", "n">>, content |-> NegativeMask],
     [path |-> <<"a", "/", "m", "b">>, content |-> LongerMask],
     [path |-> <<"a", "/", "m", "0">>, content |-> EmptyMask],
     [path |-> <<"b", "/", "m", "1">>, content |-> FirstMask]}

\* sitk.ReadImage: the image of the file, a RuntimeError when there is no such file
ReadImage(p) ==
    IF \E f \in Disk : f.path = p.v
    THEN Return((CHOOSE f \in Disk : f.path = p.v).content)
    ELSE Raise("RuntimeError", <<"Exception thrown in SimpleITK ImageFileReader_Execute">>)

\* Image.GetSize(): the extents, fastest axis first
GetSize(img) == <<NumCols(img.v[1]), NumRows(img.v[1]), Len(img.v)>>

(***************************************************************************)
(* read_image_and_mask                                                     *)
(***************************************************************************)
PathsEmptyMsg == <<"Image and mask paths cannot be empty.">>
PathsTypeMsg == <<"Image and mask paths must be strings.">>
DirectoryMsg == <<"Image and mask must be in the same directory.">>
DimensionsMsg == <<"Image and mask dimensions do not match.">>

\* lines 136-151
read_image_and_mask(ip, mp) ==
    IF Falsy(ip) \/ Falsy(mp)
    THEN Raise("ValueError", PathsEmptyMsg)
    ELSE IF ~isinstance(ip, "str") \/ ~isinstance(mp, "str")
    THEN Raise("TypeError", PathsTypeMsg)
    ELSE IF dirname(ip.v) # dirname(mp.v)
    THEN Raise("ValueError", DirectoryMsg)
    ELSE LET img == ReadImage(ip)
         IN  IF img.kind = "raise" THEN img
             ELSE LET msk == ReadImage(mp)
                  IN  IF msk.kind = "raise" THEN msk
                      ELSE IF GetSize(img.value) # GetSize(msk.value)
                      THEN Raise("ValueError", DimensionsMsg)
                      ELSE Return(<<img.value, msk.value>>)

(***************************************************************************)
(* get_patient_image_mask_dict                                             *)
(***************************************************************************)
EmptyIdsMsg == <<"The patient_ids list cannot be empty.">>
LengthsMsg == <<"The number of images, masks, and patient_ids must be the same.">>
ModeMsg == <<"Mode should be '2D' or '3D'">>

\* mutant of GP_Checks: the lengths compared before the emptiness of patient_ids
GP_Checks_LengthFirst(ips, mps, pids) ==
    IF len(ips) # len(mps) \/ len(ips) # len(pids)
    THEN Raise("ValueError", LengthsMsg)
    ELSE IF len(pids) = 0
    THEN Raise("ValueError", EmptyIdsMsg)
    ELSE None

\* mutant of GP_Checks: only the image and the mask lists compared in length
GP_Checks_ImagesVsMasksOnly(ips, mps, pids) ==
    IF len(pids) = 0
    THEN Raise("ValueError", EmptyIdsMsg)
    ELSE IF len(ips) # len(mps)
    THEN Raise("ValueError", LengthsMsg)
    ELSE None

\* lines 156-160
GP_Checks(ips, mps, pids) ==
    IF len(pids) = 0
    THEN Raise("ValueError", EmptyIdsMsg)
    ELSE IF len(ips) # len(mps) \/ len(ips) # len(pids)
    THEN Raise("ValueError", LengthsMsg)
    ELSE None

\* mutant of GP_Store: an empty list of records is not stored
GP_Store_SkipEmpty(dict, pr_id, records) ==
    IF records.kind = "raise" THEN records
    ELSE IF records.value.v = <<>> THEN Return(dict)
    ELSE Return(DictSet(dict, pr_id, records.value))

\* lines 168-169 and 171-172: an error raised by the call on the right-hand side
\* leaves the function, otherwise its value is stored under the raw pr_id
GP_Store(dict, pr_id, records) ==
    IF records.kind = "raise" THEN records
    ELSE Return(DictSet(dict, pr_id, records.value))

\* mutant of GP_LoopBody: a patient whose processing raises is left out
GP_LoopBody_SkipOnError(dict, pr_id, img_path, msk_path, md) ==
    LET r == read_image_and_mask(img_path, msk_path)
    IN  IF r.kind = "raise" THEN Return(dict)
        ELSE LET img == r.value[1]
                 msk == r.value[2]
                 records == IF md = PyStr("2D") THEN get_slices_2D(img, msk, pr_id)
                            ELSE IF md = PyStr("3D") THEN get_volume_3D(img, msk, pr_id)
                            ELSE Raise("ValueError", ModeMsg)
             IN  IF records.kind = "raise" THEN Return(dict)
                 ELSE Return(DictSet(dict, pr_id, records.value))

\* mutant of GP_LoopBody: the mode examined before the files are read
GP_LoopBody_ModeFirst(dict, pr_id, img_path, msk_path, md) ==
    IF md # PyStr("2D") /\ md # PyStr("3D")
    THEN Raise("ValueError", ModeMsg)
    ELSE LET r == read_image_and_mask(img_path, msk_path)
         IN  IF r.kind = "raise" THEN r
             ELSE LET img == r.value[1]
                      msk == r.value[2]
                      records == IF md = PyStr("2D") THEN get_slices_2D(img, msk, pr_id)
                                 ELSE get_volume_3D(img, msk, pr_id)
                  IN  IF records.kind = "raise" THEN records
                      ELSE Return(DictSet(dict, pr_id, records.value))

\* mutant of GP_LoopBody: the entry stored under the formatted PatientID
GP_LoopBody_FormattedKey(dict, pr_id, img_path, msk_path, md) ==
    LET r == read_image_and_mask(img_path, msk_path)
    IN  IF r.kind = "raise" THEN r
        ELSE LET img == r.value[1]
                 msk == r.value[2]
                 records == IF md = PyStr("2D") THEN get_slices_2D(img, msk, pr_id)
                            ELSE IF md = PyStr("3D") THEN get_volume_3D(img, msk, pr_id)
                            ELSE Raise("ValueError", ModeMsg)
             IN  IF records.kind = "raise" THEN records
                 ELSE Return(DictSet(dict, PyStr(<<"P", "R">> \o str(pr_id)), records.value))

\* lines 165-174: one iteration, for one triple of the zip; the registry so far is
\* dict.  Gives the error raised, or the registry with the patient's entry.
GP_LoopBody(dict, pr_id, img_path, msk_path, md) ==
    LET r == read_image_and_mask(img_path, msk_path)
    IN  IF r.kind = "raise" THEN r
        ELSE LET img == r.value[1]
                 msk == r.value[2]
             IN  IF md = PyStr("2D")
                 THEN GP_Store(dict, pr_id, get_slices_2D(img, msk, pr_id))
                 ELSE IF md = PyStr("3D")
                 THEN GP_Store(dict, pr_id, get_volume_3D(img, msk, pr_id))
                 ELSE Raise("ValueError", ModeMsg)

\* lines 164-176: the loop from the i-th triple on, and the return
RECURSIVE GP_Loop(_, _, _, _)
GP_Loop(dict, triples, i, md) ==
    IF i > Len(triples) THEN Return(dict)
    ELSE LET r == GP_LoopBody(dict, triples[i][1], triples[i][2], triples[i][3], md)
         IN  IF r.kind = "raise" THEN r
             ELSE GP_Loop(r.value, triples, i + 1, md)

\* the whole function, as its callers see it
get_patient_image_mask_dict(ips, mps, pids, md) ==
    LET chk == GP_Checks(ips, mps, pids)
    IN  IF chk # None THEN chk ELSE GP_Loop(PyDict(<<>>), zip(pids, ips, mps), 1, md)

(***************************************************************************)
(* Calls of read_image_and_mask and get_patient_image_mask_dict.           *)
(***************************************************************************)
Path(chars) == PyStr(chars)

ImagePathArgs ==
    {Path(<<"a", "/", "i", "1">>), Path(<<"a", "/", "x">>), Path(<<"i", "1">>), Path(<<>>),
     PyInt(123), PyInt(0), None}
MaskPathArgs ==
    {Path(<<"a", "/", "m", "1">>), Path(<<"a", "/", "m", "b">>), Path(<<"b", "/", "m", "1">>),
     Path(<<"a", "/", "/", "m", "1">>), Path(<<"m", "1">>), Path(<<>>),
     PyInt(456), PyInt(0), None}

RegistryImagePaths == {Path(<<"a", "/", "i", "1">>), Path(<<"a", "/", "i", "2">>), Path(<<>>)}
RegistryMaskPaths ==
    {Path(<<"a", "/", "m", "1">>), Path(<<"a", "/", "m", "2">>), Path(<<"a", "/", "m", "n">>),
     Path(<<"a", "/", "m", "0">>), Path(<<"b", "/", "m", "1">>)}
RegistryPatientIds == {PyInt(1), PyInt(2), PyStr(<<"P", "R", "1">>)}
Modes == {PyStr("2D"), PyStr("3D"), PyStr("4D"), None}

Lists(n, S) == {PyList(q) : q \in [1..n -> S]}

InitRead ==
    /\ fn = "read_image_and_mask" /\ pc = "start" /\ result = None
    /\ image_path \in ImagePathArgs /\ mask_path \in MaskPathArgs
    /\ NoRegistry /\ NoVolume /\ NoSlice /\ NoRegionLocals

\* lists of one length with every combination of patients, and lists of any three
\* lengths
InitRegistryCall ==
    /\ fn = "get_patient_image_mask_dict" /\ pc = "start" /\ result = None
    /\ mode \in Modes
    /\ \/ \E n \in 0..MaxPatients :
             /\ imgs_path \in Lists(n, RegistryImagePaths)
             /\ masks_path \in Lists(n, RegistryMaskPaths)
             /\ patient_ids \in Lists(n, RegistryPatientIds)
       \/ \E li, lm, lp \in 0..MaxPatients :
             /\ imgs_path \in Lists(li, {Path(<<"a", "/", "i", "1">>), Path(<<>>)})
             /\ masks_path \in Lists(lm, {Path(<<"a", "/", "m", "1">>), Path(<<"b", "/", "m", "1">>)})
             /\ patient_ids \in Lists(lp, {PyInt(1), PyInt(2)})
    /\ patient_dict = None /\ pr_idx = None /\ read_calls = <<>>
    /\ NoRead /\ NoVolume /\ NoSlice /\ NoRegionLocals

InitRegistry == InitRead \/ InitRegistryCall

\* lines 136-151
RM_Call ==
    /\ fn = "read_image_and_mask" /\ pc = "start"
    /\ pc' = "done"
    /\ result' = read_image_and_mask(image_path, mask_path)
    /\ UNCHANGED <<fn, registryAll, sliceArgs, regionVars, volumeArgs, volumeVars>>

\* lines 156-162
GP_Enter ==
    /\ fn = "get_patient_image_mask_dict" /\ pc = "start"
    /\ LET chk == GP_Checks(imgs_path, masks_path, patient_ids)
       IN  IF chk # None
           THEN /\ pc' = "done" /\ result' = chk
                /\ UNCHANGED <<patient_dict, pr_idx>>
           ELSE /\ patient_dict' = PyDict(<<>>)
                /\ pr_idx' = 0
                /\ pc' = "loop"
                /\ UNCHANGED result
    /\ UNCHANGED <<fn, readArgs, registryArgs, read_calls, sliceArgs, regionVars, volumeArgs, volumeVars>>

\* lines 164-174, one iteration
GP_Iter ==
    /\ fn = "get_patient_image_mask_dict" /\ pc = "loop"
    /\ pr_idx < Len(zip(patient_ids, imgs_path, masks_path))
    /\ LET triple == zip(patient_ids, imgs_path, masks_path)[pr_idx + 1]
           r == GP_LoopBody(patient_dict, triple[1], triple[2], triple[3], mode)
       IN  /\ read_calls' = Append(read_calls, <<triple[2], triple[3]>>)
           /\ IF r.kind = "raise"
              THEN /\ pc' = "done" /\ result' = r
                   /\ UNCHANGED <<patient_dict, pr_idx>>
              ELSE /\ patient_dict' = r.value
                   /\ pr_idx' = pr_idx + 1
                   /\ UNCHANGED <<pc, result>>
    /\ UNCHANGED <<fn, readArgs, registryArgs, sliceArgs, regionVars, volumeArgs, volumeVars>>

\* line 176
GP_Return ==
    /\ fn = "get_patient_image_mask_dict" /\ pc = "loop"
    /\ pr_idx >= Len(zip(patient_ids, imgs_path, masks_path))
    /\ pc' = "done"
    /\ result' = Return(patient_dict)
    /\ UNCHANGED <<fn, registryAll, sliceArgs, regionVars, volumeArgs, volumeVars>>

NextRegistry == RM_Call \/ GP_Enter \/ GP_Iter \/ GP_Return

SpecRegistry == InitRegistry /\ [][NextRegistry]_vars

(***************************************************************************)
(* Vocabulary of the properties, defined apart from the model of the code. *)
(***************************************************************************)
At(a, p) == a[p[1]][p[2]]
Abs(n) == IF n < 0 THEN 0 - n ELSE n

\* two cells that share an edge
EdgeNeighbours(p, q) == Abs(p[1] - q[1]) + Abs(p[2] - q[2]) = 1

\* S cannot be split in two parts without an edge between them
ConnectedSet(S) ==
    /\ S # {}
    /\ \A A \in SUBSET S :
          (A # {} /\ A # S) => \E p \in A, q \in S \ A : EdgeNeighbours(p, q)

\* the 4-connected components of the cells of a that equal x
ComponentsOf(a, x) ==
    LET T == {p \in Cells(a) : At(a, p) = x}
    IN  {S \in SUBSET T :
            /\ ConnectedSet(S)
            /\ \A q \in T \ S : \A p \in S : ~EdgeNeighbours(p, q)}

NonZeroCells(a) == {p \in Cells(a) : At(a, p) # 0}

\* the invariant of a LabelMask: no cell below 0
IsLabelMask(a) == \A p \in Cells(a) : At(a, p) >= 0

PositiveLabels(a) == {At(a, p) : p \in {q \in Cells(a) : At(a, q) > 0}}
MinOf(S) == CHOOSE x \in S : \A y \in S : x <= y

RegionDone == fn = "extract_largest_region" /\ pc = "done"
RegionReturned ==
    /\ RegionDone
    /\ result.kind = "return"
    /\ result.value # None

\* C1: when extract_largest_region returns a region for a label_value > 0, the
\* nonzero cells of the region hold label_value and lie on cells of the mask equal
\* to label_value, they are exactly one 4-connected component of that label, and
\* no other component of that label in the mask has more cells.
C1_LargestRegion ==
    (RegionReturned /\ label_value.v > 0) =>
        LET region == result.value.v
            S == NonZeroCells(region)
        IN  /\ isinstance(result.value, "ndarray")
            /\ Cells(region) = Cells(mask_slice.v)
            /\ \A p \in S : At(region, p) = label_value.v /\ At(mask_slice.v, p) = label_value.v
            /\ S \in ComponentsOf(mask_slice.v, label_value.v)
            /\ \A T \in ComponentsOf(mask_slice.v, label_value.v) :
                  Cardinality(S) >= Cardinality(T)

\* a region was returned although the label has a second, smaller component
C1_Witness ==
    /\ RegionReturned /\ label_value.v > 0
    /\ \E T \in ComponentsOf(mask_slice.v, label_value.v) :
          Cardinality(T) < Cardinality(NonZeroCells(result.value.v))

\* C4: for an array mask and an integer label_value >= 0 that no cell of the mask
\* equals, extract_largest_region returns None and raises nothing.
C4_AbsentLabelNone ==
    ( /\ RegionDone
      /\ isinstance(mask_slice, "ndarray")
      /\ isinstance(label_value, "int")
      /\ label_value.v >= 0
      /\ \A p \in Cells(mask_slice.v) : At(mask_slice.v, p) # label_value.v )
    => result = Return(None)

\* the label is absent from a mask that holds other labels
C4_Witness ==
    /\ RegionDone
    /\ isinstance(mask_slice, "ndarray") /\ isinstance(label_value, "int")
    /\ label_value.v > 0
    /\ \A p \in Cells(mask_slice.v) : At(mask_slice.v, p) # label_value.v
    /\ \E p \in Cells(mask_slice.v) : At(mask_slice.v, p) > 0
    /\ result = Return(None)

\* C6: for a label_value that is a float or a string, extract_largest_region
\* raises TypeError("Label value must be an integer") and returns no region.
C6_LabelTypeError ==
    (RegionDone /\ label_value.t \in {"float", "str"}) =>
        /\ result.kind = "raise"
        /\ result.exc = "TypeError"
        /\ result.msg = <<"Label value must be an integer">>
        /\ largest_region = None

C6_Witness ==
    /\ RegionDone /\ label_value.t = "float" /\ isinstance(mask_slice, "ndarray")
    /\ result.kind = "raise"

\* C7: for an integer label_value < 0, extract_largest_region raises
\* ValueError("Label value cannot be negative") whatever the mask holds.
C7_NegativeLabelError ==
    (RegionDone /\ isinstance(label_value, "int") /\ label_value.v < 0) =>
        /\ result.kind = "raise"
        /\ result.exc = "ValueError"
        /\ result.msg = <<"Label value cannot be negative">>

\* the mask holds a cell equal to the negative label
C7_Witness ==
    /\ RegionDone /\ isinstance(label_value, "int") /\ label_value.v < 0
    /\ isinstance(mask_slice, "ndarray")
    /\ \E p \in Cells(mask_slice.v) : At(mask_slice.v, p) = label_value.v
    /\ result.kind = "raise"

\* C8: with an integer scalar as mask_slice and an array as label_value,
\* extract_largest_region raises the TypeError that names the swap, not the
\* "Label value must be an integer" one.
C8_SwappedInputsError ==
    (RegionDone /\ isinstance(mask_slice, "int") /\ isinstance(label_value, "ndarray")) =>
        /\ result.kind = "raise"
        /\ result.exc = "TypeError"
        /\ result.msg =
             <<"Inputs appear to be swapped. Expected mask_slice as a numpy array and label_value as an integer.">>
        /\ result.msg # <<"Label value must be an integer">>

C8_Witness ==
    /\ RegionDone /\ isinstance(mask_slice, "int") /\ isinstance(label_value, "ndarray")
    /\ result.kind = "raise"

SliceDone == fn = "process_slice" /\ pc = "done"

Volume2DDone == fn = "get_slices_2D" /\ pc = "done"
Volume3DDone == fn = "get_volume_3D" /\ pc = "done"

NumMaskSlices == Len(mask.v)
MaskSliceAt(i) == mask.v[i + 1]

\* a valid call: an image, a mask that is a LabelMask, an integer patient_id
ValidVolumeArgs ==
    /\ isinstance(image, "Image") /\ isinstance(mask, "Image")
    /\ isinstance(patient_id, "int")
    /\ \A i \in 0..(NumMaskSlices - 1) : IsLabelMask(MaskSliceAt(i))

\* C3: for a valid volume get_slices_2D returns, and the SliceIndex values of its
\* records, in list order, are exactly the indices of the mask slices in which
\* process_slice found a region (the slices with a nonzero cell), strictly
\* ascending: one record per such slice, none for an empty slice, each with its
\* original index.
C3_SliceIndexOrder ==
    (Volume2DDone /\ ValidVolumeArgs) =>
        /\ result.kind = "return"
        /\ isinstance(result.value, "list")
        /\ LET recs == result.value.v
               found == {i \in 0..(NumMaskSlices - 1) :
                            process_slice(NdArray(MaskSliceAt(i))).value[1] # None}
               nonEmpty == {i \in 0..(NumMaskSlices - 1) : NonZeroCells(MaskSliceAt(i)) # {}}
           IN  /\ found = nonEmpty
               /\ Len(recs) = Cardinality(found)
               /\ \A k \in 1..Len(recs) : recs[k].SliceIndex \in found
               /\ \A k \in 1..(Len(recs) - 1) : recs[k].SliceIndex < recs[k + 1].SliceIndex

\* slices 0 and 2 hold a region, slice 1 is empty: two records, indices 0 and 2
C3_Witness ==
    /\ Volume2DDone /\ ValidVolumeArgs
    /\ result.kind = "return"
    /\ Len(result.value.v) = 2
    /\ result.value.v[1].SliceIndex = 0
    /\ result.value.v[2].SliceIndex = 2
    /\ NonZeroCells(MaskSliceAt(1)) = {}

\* the first argument, in the order image, mask, patient_id, that is not of the
\* expected type
FirstBadArg ==
    IF image.t # "Image" THEN "image"
    ELSE IF mask.t # "Image" THEN "mask"
    ELSE IF patient_id.t # "int" THEN "patient_id"
    ELSE "none"

DigitValue(ch) ==
    CASE ch = "0" -> 0 [] ch = "1" -> 1 [] ch = "2" -> 2 [] ch = "3" -> 3 [] ch = "4" -> 4
      [] ch = "5" -> 5 [] ch = "6" -> 6 [] ch = "7" -> 7 [] ch = "8" -> 8 [] ch = "9" -> 9

RECURSIVE NatOf(_)
NatOf(s) ==
    IF Len(s) = 0 THEN 0
    ELSE 10 * NatOf(SubSeq(s, 1, Len(s) - 1)) + DigitValue(s[Len(s)])

\* s is the decimal notation of the natural number n
IsNatDecimal(s, n) ==
    /\ Len(s) >= 1
    /\ \A k \in 1..Len(s) : s[k] \in {"0", "1", "2", "3", "4", "5", "6", "7", "8", "9"}
    /\ Len(s) > 1 => s[1] # "0"
    /\ NatOf(s) = n

\* s is the decimal notation of the integer n
IsDecimal(s, n) ==
    IF n < 0
    THEN Len(s) >= 2 /\ s[1] = "-" /\ IsNatDecimal(Tail(s), 0 - n)
    ELSE IsNatDecimal(s, n)

\* C10: for an image, a mask and an integer patient_id, get_volume_3D returns a
\* list of exactly one record, whose ImageVolume and MaskVolume are the image and
\* the mask passed in, whatever the mask holds, and whose PatientID is "PR"
\* followed by the decimal notation of patient_id.
C10_VolumePassthrough ==
    ( /\ Volume3DDone
      /\ isinstance(image, "Image") /\ isinstance(mask, "Image")
      /\ isinstance(patient_id, "int") )
    => /\ result.kind = "return"
       /\ isinstance(result.value, "list")
       /\ Len(result.value.v) = 1
       /\ LET rec == result.value.v[1]
          IN  /\ DOMAIN rec = {"PatientID", "ImageVolume", "MaskVolume"}
              /\ rec.ImageVolume = image
              /\ rec.MaskVolume = mask
              /\ Len(rec.PatientID) >= 3
              /\ rec.PatientID[1] = "P" /\ rec.PatientID[2] = "R"
              /\ IsDecimal(SubSeq(rec.PatientID, 3, Len(rec.PatientID)), patient_id.v)

\* an all-background mask and a patient_id of several digits
C10_Witness ==
    /\ Volume3DDone
    /\ isinstance(image, "Image") /\ isinstance(mask, "Image")
    /\ patient_id = PyInt(1234)
    /\ \A i \in 0..(NumMaskSlices - 1) : NonZeroCells(MaskSliceAt(i)) = {}
    /\ result.kind = "return"
    /\ result.value.v[1].PatientID = <<"P", "R", "1", "2", "3", "4">>

\* the number of cells the labelling gave component id k
AreaOfId(k) == Cardinality({p \in Cells(labeled_region) : At(labeled_region, p) = k})
MaxOf(S) == CHOOSE x \in S : \A y \in S : x >= y

\* the lowest id of a component of maximum area among the ids 1..n
LowestLargestId(n) ==
    LET m == MaxOf({AreaOfId(k) : k \in 1..n})
    IN  MinOf({k \in 1..n : AreaOfId(k) = m})

\* the grid holding x on the cells of component id k and 0 elsewhere
RegionOfId(k, x) ==
    [r \in 1..NumRows(labeled_region) |->
        [c \in 1..NumCols(labeled_region) |->
            IF labeled_region[r][c] = k THEN x ELSE 0]]

\* C20: while extract_largest_region scans the component ids 1..K of a label
\* value > 0 in ascending order, after each step the retained component is the
\* lowest-id component of maximum area among those scanned so far (a component of
\* equal area never replaces it), and the lowest-id largest component of all is
\* what the function returns.
C20_TieLowestId ==
    /\ ( /\ fn = "extract_largest_region" /\ pc = "loop"
         /\ label_value.v > 0 /\ region_id > 1 )
       => LET best == LowestLargestId(region_id - 1)
          IN  /\ largest_area = AreaOfId(best)
              /\ largest_region = NdArray(RegionOfId(best, label_value.v))
    /\ (RegionReturned /\ label_value.v > 0)
       => result.value = NdArray(RegionOfId(LowestLargestId(num_labels), label_value.v))

\* two components share the maximum area and the one of lower id was returned
C20_Witness ==
    /\ RegionReturned /\ label_value.v > 0
    /\ \E j, k \in 1..num_labels :
          /\ j < k
          /\ AreaOfId(j) = AreaOfId(k)
          /\ \A i \in 1..num_labels : AreaOfId(i) <= AreaOfId(j)
          /\ result.value = NdArray(RegionOfId(j, label_value.v))
          /\ result.value # NdArray(RegionOfId(k, label_value.v))

\* C17: every record of get_slices_2D with SliceIndex i and Label l holds as
\* ImageSlice the unmodified slice i of the image, and as MaskSlice the largest
\* connected region of label l in mask slice i (every cell outside that one
\* component is 0), l being the label process_slice chose for the slice; the
\* list returned is the list of these records.
C17_RecordContents ==
    (fn = "get_slices_2D" /\ patient_slices # None) =>
        /\ \A k \in 1..Len(patient_slices.v) :
              LET rec == patient_slices.v[k]
                  i == rec.SliceIndex
                  raw == MaskSliceAt(i)
                  S == NonZeroCells(rec.MaskSlice.v)
              IN  /\ rec.ImageSlice = SitkImage(image.v[i + 1])
                  /\ isinstance(rec.Label, "int")
                  /\ rec.Label = process_slice(NdArray(raw)).value[2]
                  /\ rec.Label.v = MinOf(PositiveLabels(raw))
                  /\ isinstance(rec.MaskSlice, "Image")
                  /\ Cells(rec.MaskSlice.v) = Cells(raw)
                  /\ \A p \in S : At(rec.MaskSlice.v, p) = rec.Label.v
                  /\ S \in ComponentsOf(raw, rec.Label.v)
                  /\ \A T \in ComponentsOf(raw, rec.Label.v) : Cardinality(T) <= Cardinality(S)
        /\ (pc = "done" /\ result.kind = "return") => result.value = patient_slices

\* a returned record whose MaskSlice differs from the raw mask slice
C17_Witness ==
    /\ Volume2DDone /\ result.kind = "return"
    /\ \E k \in 1..Len(result.value.v) :
          LET rec == result.value.v[k]
          IN  /\ rec.MaskSlice.v # MaskSliceAt(rec.SliceIndex)
              /\ \E T \in ComponentsOf(MaskSliceAt(rec.SliceIndex), rec.Label.v) :
                    T # NonZeroCells(rec.MaskSlice.v)

RegistryCall == fn = "get_patient_image_mask_dict"
RegistryDone == RegistryCall /\ pc = "done"
SameLengths == len(imgs_path) = len(masks_path) /\ len(imgs_path) = len(patient_ids)

\* C11: with an empty patient_ids, get_patient_image_mask_dict fails with
\* ValueError "The patient_ids list cannot be empty." whatever the path lists and
\* the mode are, also when the lengths differ, and without entering the loop or
\* calling read_image_and_mask.
C11_EmptyIdsError ==
    (RegistryCall /\ len(patient_ids) = 0) =>
        /\ pc # "loop"
        /\ read_calls = <<>>
        /\ patient_dict = None
        /\ pc = "done" => result = Raise("ValueError", EmptyIdsMsg)

\* empty patient_ids with non-empty path lists: the lengths differ as well
C11_Witness ==
    /\ RegistryDone
    /\ len(patient_ids) = 0 /\ len(imgs_path) > 0 /\ len(masks_path) > 0
    /\ result = Raise("ValueError", EmptyIdsMsg)

\* C12: with a non-empty patient_ids and three lists not all of one length,
\* get_patient_image_mask_dict fails with ValueError "The number of images, masks,
\* and patient_ids must be the same." whatever the mode is, without entering the
\* loop or calling read_image_and_mask.
C12_LengthMismatchError ==
    (RegistryCall /\ len(patient_ids) > 0 /\ ~SameLengths) =>
        /\ pc # "loop"
        /\ read_calls = <<>>
        /\ patient_dict = None
        /\ pc = "done" => result = Raise("ValueError", LengthsMsg)

\* as many images as masks but fewer patient ids, and a mode that is not valid
C12_Witness ==
    /\ RegistryDone
    /\ len(patient_ids) > 0
    /\ len(imgs_path) = len(masks_path) /\ len(imgs_path) > len(patient_ids)
    /\ mode \notin {PyStr("2D"), PyStr("3D")}
    /\ result = Raise("ValueError", LengthsMsg)

ValidMode == mode \in {PyStr("2D"), PyStr("3D")}
NumPatients == len(patient_ids)

\* what read_image_and_mask gives for the paths of the i-th patient
PairOf(i) == read_image_and_mask(imgs_path.v[i], masks_path.v[i])
Readable(i) == PairOf(i).kind = "return"

\* C13 as stated: with non-empty lists of one length and a mode other than "2D"
\* and "3D" the call always fails with ValueError "Mode should be '2D' or '3D'".
C13_ModeErrorAlways ==
    (RegistryDone /\ NumPatients > 0 /\ SameLengths /\ ~ValidMode) =>
        result = Raise("ValueError", ModeMsg)

\* C13: with non-empty lists of one length and a mode other than "2D" and "3D",
\* get_patient_image_mask_dict returns no registry: it calls read_image_and_mask
\* for the first patient only, and it fails with ValueError "Mode should be '2D'
\* or '3D'" when that read succeeds and with the error read_image_and_mask raised
\* when it does not.
C13_ModeErrorAfterFirstRead ==
    (RegistryDone /\ NumPatients > 0 /\ SameLengths /\ ~ValidMode) =>
        /\ result.kind = "raise"
        /\ read_calls = <<(<<imgs_path.v[1], masks_path.v[1]>>)>>
        /\ patient_dict = PyDict(<<>>)
        /\ Readable(1) => result = Raise("ValueError", ModeMsg)
        /\ ~Readable(1) => result = PairOf(1)

\* several patients, the first pair readable, a mode that is not valid
C13_Witness ==
    /\ RegistryDone /\ NumPatients > 1 /\ SameLengths /\ ~ValidMode
    /\ Readable(1)
    /\ result = Raise("ValueError", ModeMsg)
    /\ Len(read_calls) = 1

\* C14: in every registry get_patient_image_mask_dict returns, in both modes,
\* each key is an element of patient_ids as given (an int, never a text with the
\* "PR" prefix), and every record stored under a key k has as PatientID "PR"
\* followed by the decimal notation of k.
C14_RawKeys ==
    (RegistryDone /\ result.kind = "return") =>
        /\ isinstance(result.value, "dict")
        /\ \A e \in 1..Len(result.value.v) :
              LET k == result.value.v[e][1]
                  records == result.value.v[e][2]
              IN  /\ \E i \in 1..NumPatients : KeyEq(patient_ids.v[i], k)
                  /\ isinstance(k, "int")
                  /\ isinstance(records, "list")
                  /\ \A j \in 1..Len(records.v) :
                        LET id == records.v[j].PatientID
                        IN  /\ Len(id) >= 3 /\ id[1] = "P" /\ id[2] = "R"
                            /\ IsDecimal(SubSeq(id, 3, Len(id)), k.v)

\* a registry of two keys returned in 2D mode, with records under both keys
C14_Witness ==
    /\ RegistryDone /\ result.kind = "return" /\ mode = PyStr("2D")
    /\ Len(result.value.v) = 2
    /\ \A e \in 1..2 : Len(result.value.v[e][2].v) > 0
    /\ result.value.v[1][2].v[1].PatientID # result.value.v[2][2].v[1].PatientID

AllDistinct(l) == \A i, j \in 1..len(l) : i # j => ~KeyEq(l.v[i], l.v[j])

\* C15: in mode "3D", for n pairwise distinct int patient ids whose image/mask
\* pairs read_image_and_mask loads, the call returns a mapping with exactly n
\* keys, the n ids, and the value under the i-th id is a list of one record that
\* holds the image and the mask read from imgs_path[i] and masks_path[i].
C15_VolumeRegistry ==
    ( /\ RegistryDone /\ mode = PyStr("3D")
      /\ NumPatients > 0 /\ SameLengths
      /\ \A i \in 1..NumPatients : isinstance(patient_ids.v[i], "int") /\ Readable(i)
      /\ AllDistinct(patient_ids) )
    => /\ result.kind = "return"
       /\ isinstance(result.value, "dict")
       /\ Len(result.value.v) = NumPatients
       /\ \A i \in 1..NumPatients :
             \E e \in 1..Len(result.value.v) :
                /\ result.value.v[e][1] = patient_ids.v[i]
                /\ isinstance(result.value.v[e][2], "list")
                /\ Len(result.value.v[e][2].v) = 1
                /\ result.value.v[e][2].v[1].ImageVolume = PairOf(i).value[1]
                /\ result.value.v[e][2].v[1].MaskVolume = PairOf(i).value[2]

\* two patients whose images differ and whose masks differ
C15_Witness ==
    /\ RegistryDone /\ mode = PyStr("3D") /\ NumPatients = 2 /\ SameLengths
    /\ AllDistinct(patient_ids)
    /\ result.kind = "return" /\ Len(result.value.v) = 2
    /\ result.value.v[1][2].v[1].ImageVolume # result.value.v[2][2].v[1].ImageVolume
    /\ result.value.v[1][2].v[1].MaskVolume # result.value.v[2][2].v[1].MaskVolume

ReadDone == fn = "read_image_and_mask" /\ pc = "done"
IsEmptyText(x) == isinstance(x, "str") /\ x.v = <<>>
OnDisk(x) == \E f \in Disk : f.path = x.v
FileAt(x) == (CHOOSE f \in Disk : f.path = x.v).content

\* C16 as stated: read_image_and_mask fails with a ValueError when a path is an
\* empty text, with a TypeError whenever a path is not a text (read here for the
\* calls in which no path is an empty text), with a ValueError when the parent
\* directories differ and with a ValueError when the loaded sizes differ, and it
\* returns the pair of loaded files only when none of these holds.
C16_ReadErrors ==
    ReadDone =>
        LET emptyPath == IsEmptyText(image_path) \/ IsEmptyText(mask_path)
            nonText == ~isinstance(image_path, "str") \/ ~isinstance(mask_path, "str")
            text == ~emptyPath /\ ~nonText
            otherParent == text /\ dirname(image_path.v) # dirname(mask_path.v)
            loaded == text /\ ~otherParent /\ OnDisk(image_path) /\ OnDisk(mask_path)
            otherSize == loaded /\ GetSize(FileAt(image_path)) # GetSize(FileAt(mask_path))
        IN  /\ emptyPath => result = Raise("ValueError", PathsEmptyMsg)
            /\ (nonText /\ ~emptyPath) => result = Raise("TypeError", PathsTypeMsg)
            /\ otherParent => result = Raise("ValueError", DirectoryMsg)
            /\ otherSize => result = Raise("ValueError", DimensionsMsg)
            /\ result.kind = "return"
               => /\ ~emptyPath /\ ~nonText /\ ~otherParent /\ ~otherSize
                  /\ result.value = <<FileAt(image_path), FileAt(mask_path)>>

\* what lines 165-174 give for the i-th patient: the error raised, or the records
PatientOutcome(i) ==
    IF ~Readable(i) THEN PairOf(i)
    ELSE IF mode = PyStr("2D")
    THEN get_slices_2D(PairOf(i).value[1], PairOf(i).value[2], patient_ids.v[i])
    ELSE IF mode = PyStr("3D")
    THEN get_volume_3D(PairOf(i).value[1], PairOf(i).value[2], patient_ids.v[i])
    ELSE Raise("ValueError", ModeMsg)

FailingPatients == {i \in 1..NumPatients : PatientOutcome(i).kind = "raise"}

\* C18: when read_image_and_mask, get_slices_2D or get_volume_3D raises for the
\* k-th patient (and for none before), get_patient_image_mask_dict ends with
\* that same error, has read the files of the patients 1..k only, and returns
\* no registry, the entries of the patients 1..k-1 included; a registry is
\* returned only when no patient raises.
C18_ErrorsPropagate ==
    /\ (RegistryCall /\ pc = "loop")
       => /\ Len(read_calls) = pr_idx
          /\ Len(patient_dict.v) <= pr_idx
          /\ \A i \in 1..pr_idx : i \notin FailingPatients
    /\ (RegistryDone /\ NumPatients > 0 /\ SameLengths)
       => IF FailingPatients = {}
          THEN result = Return(patient_dict) /\ Len(read_calls) = NumPatients
          ELSE LET k == MinOf(FailingPatients)
               IN  /\ result.kind = "raise"
                   /\ result = PatientOutcome(k)
                   /\ read_calls = [i \in 1..k |-> <<imgs_path.v[i], masks_path.v[i]>>]
                   /\ pr_idx = k - 1
                   /\ \A e \in 1..Len(patient_dict.v) :
                         \E i \in 1..(k - 1) : KeyEq(patient_dict.v[e][1], patient_ids.v[i])

\* of three patients the second one fails in get_slices_2D after the first one
\* got its entry: the error is the result and the third patient is not read
C18_Witness ==
    /\ RegistryDone /\ NumPatients = 3 /\ SameLengths /\ mode = PyStr("2D")
    /\ MinOf(FailingPatients) = 2 /\ Readable(2)
    /\ result.kind = "raise"
    /\ Len(patient_dict.v) = 1
    /\ Len(read_calls) = 2

\* no slice of the mask of the i-th patient holds a cell below 0
Sliceable(i) ==
    \A z \in 1..Len(PairOf(i).value[2].v) : IsLabelMask(PairOf(i).value[2].v[z])

NonIntIds == {i \in 1..NumPatients : ~isinstance(patient_ids.v[i], "int")}

ZeroLabelCall ==
    /\ fn = "extract_largest_region"
    /\ isinstance(mask_slice, "ndarray")
    /\ isinstance(label_value, "int") /\ label_value.v = 0

\* C21: for label_value = 0, extract_largest_region returns None for every mask,
\* also when the mask has background cells and the labelling therefore finds
\* components: the area counted for every component, the number of cells of
\* component * 0 that are > 0, is 0, so nothing is ever retained.
C21_ZeroLabelNone ==
    /\ (ZeroLabelCall /\ pc = "loop")
       => /\ num_labels = Cardinality(ComponentsOf(mask_slice.v, 0))
          /\ \A k \in 1..num_labels :
                /\ AreaOfId(k) > 0
                /\ CountPositive(MaskTimes(labeled_region, k, label_value.v)) = 0
          /\ largest_area = 0
          /\ largest_region = None
    /\ (ZeroLabelCall /\ pc = "done") => result = Return(None)

\* a mask with two separate background components, label 0: all of the loop ran
\* and None was returned
C21_Witness ==
    /\ ZeroLabelCall /\ pc = "done"
    /\ num_labels >= 2 /\ region_id = num_labels + 1
    /\ Cardinality(ComponentsOf(mask_slice.v, 0)) >= 2
    /\ result = Return(None)

HasNegativeCell(a) == \E p \in Cells(a) : At(a, p) < 0
NegativeSlices == {i \in 0..(NumMaskSlices - 1) : HasNegativeCell(MaskSliceAt(i))}
VolumeArgsTyped ==
    /\ isinstance(image, "Image") /\ isinstance(mask, "Image")
    /\ isinstance(patient_id, "int")

\* C22: a mask slice with a negative cell is not skipped.  process_slice tries
\* the smallest nonzero value first, which is negative, and ends with the
\* ValueError "Label value cannot be negative" of extract_largest_region;
\* get_slices_2D ends with that error when it comes to the first such slice,
\* and the records built for the slices before it are not returned.
C22_NegativeCellRaises ==
    (fn = "get_slices_2D" /\ VolumeArgsTyped /\ NegativeSlices # {}) =>
        /\ \A i \in NegativeSlices :
              /\ MinOf({At(MaskSliceAt(i), p) : p \in NonZeroCells(MaskSliceAt(i))}) < 0
              /\ process_slice(NdArray(MaskSliceAt(i))) = Raise("ValueError", LabelNegativeMsg)
        /\ pc = "loop" => slice_idx <= MinOf(NegativeSlices)
        /\ pc = "done"
           => /\ result = Raise("ValueError", LabelNegativeMsg)
              /\ slice_idx = MinOf(NegativeSlices)
              /\ Len(patient_slices.v) <= slice_idx

\* the negative cell is in a later slice, next to a positive label, and a record
\* had been built for an earlier slice
C22_Witness ==
    /\ Volume2DDone /\ VolumeArgsTyped /\ NegativeSlices # {}
    /\ MinOf(NegativeSlices) > 0
    /\ PositiveLabels(MaskSliceAt(MinOf(NegativeSlices))) # {}
    /\ Len(patient_slices.v) > 0
    /\ result = Raise("ValueError", LabelNegativeMsg)

DistinctIds == {patient_ids.v[i].v : i \in 1..NumPatients}
LastOccurrence(i) == \A j \in (i + 1)..NumPatients : ~KeyEq(patient_ids.v[j], patient_ids.v[i])
HasRepeatedId == \E i, j \in 1..NumPatients : i < j /\ KeyEq(patient_ids.v[i], patient_ids.v[j])

\* C23: a registry returned for a patient_ids with repeated identifiers has one
\* key per distinct identifier, fewer than the triples given, and the value under
\* each key is what the last triple with that identifier produced; the records
\* of the earlier triples are gone and no error is raised for the repetition.
C23_LastOccurrenceWins ==
    /\ (RegistryDone /\ result.kind = "return")
       => /\ Len(result.value.v) = Cardinality(DistinctIds)
          /\ HasRepeatedId => Len(result.value.v) < NumPatients
          /\ \A i \in 1..NumPatients :
                LastOccurrence(i)
                => \E e \in 1..Len(result.value.v) :
                      /\ result.value.v[e][1] = patient_ids.v[i]
                      /\ result.value.v[e][2] = PatientOutcome(i).value
    /\ (RegistryDone /\ NumPatients > 0 /\ SameLengths /\ FailingPatients = {})
       => result.kind = "return"

\* the same identifier given twice with different files: one key, holding the
\* records of the second triple and not those of the first
C23_Witness ==
    /\ RegistryDone /\ result.kind = "return"
    /\ NumPatients >= 2
    /\ KeyEq(patient_ids.v[1], patient_ids.v[2])
    /\ LastOccurrence(2)
    /\ PatientOutcome(1).value # PatientOutcome(2).value
    /\ \E e \in 1..Len(result.value.v) :
          /\ result.value.v[e][1] = patient_ids.v[2]
          /\ result.value.v[e][2] = PatientOutcome(2).value
    /\ Len(result.value.v) < NumPatients

\* the mask read for the i-th patient has no cell other than 0
UnlabeledMask(i) ==
    \A z \in 1..Len(PairOf(i).value[2].v) : NonZeroCells(PairOf(i).value[2].v[z]) = {}

\* C24: in "2D" mode, with int identifiers, readable pairs and masks that are
\* LabelMasks, get_patient_image_mask_dict returns a registry in which every
\* identifier given is a key; for a patient whose mask has no labeled cell in
\* any slice get_slices_2D returns the empty list, and that empty list is the
\* value stored under the patient's key.
C24_EmptyPatientKept ==
    ( /\ RegistryDone /\ mode = PyStr("2D") /\ NumPatients > 0 /\ SameLengths
      /\ \A i \in 1..NumPatients :
            isinstance(patient_ids.v[i], "int") /\ Readable(i) /\ Sliceable(i) )
    => /\ result.kind = "return"
       /\ \A i \in 1..NumPatients :
             /\ \E e \in 1..Len(result.value.v) : result.value.v[e][1] = patient_ids.v[i]
             /\ UnlabeledMask(i)
                => /\ get_slices_2D(PairOf(i).value[1], PairOf(i).value[2], patient_ids.v[i])
                        = Return(PyList(<<>>))
                   /\ LastOccurrence(i)
                      => \E e \in 1..Len(result.value.v) :
                            /\ result.value.v[e][1] = patient_ids.v[i]
                            /\ result.value.v[e][2] = PyList(<<>>)

\* two patients in 2D mode, the first with a mask without labeled cells: its key
\* holds the empty list, the other key holds records
C24_Witness ==
    /\ RegistryDone /\ mode = PyStr("2D") /\ NumPatients = 2 /\ SameLengths
    /\ result.kind = "return"
    /\ Readable(1) /\ UnlabeledMask(1)
    /\ Len(result.value.v) = 2
    /\ result.value.v[1] = <<patient_ids.v[1], PyList(<<>>)>>
    /\ Len(result.value.v[2][2].v) > 0

====
